---- MODULE Spec2Model ----
(***************************************************************************)
(* Model of the study-note quiz generator (Whisper-711/ai-review-system).  *)
(*  - the store: tables notes / questions / user_answers (database.py) and *)
(*    the repository functions over it (models.py);                        *)
(*  - the remote-model clients: generate_questions_from_note and           *)
(*    score_answer (coze_client.py, dashscope_client.py);                  *)
(*  - multiple-choice grading: normalize_choice (app.py).                  *)
(***************************************************************************)
EXTENDS Integers, Sequences, FiniteSets, TLC

VARIABLES
    notes,      \* table notes, in rowid order: [id, created_at]
    questions,  \* table questions, in rowid order
    answers,    \* table user_answers, in rowid order
    seq,        \* sqlite_sequence: last AUTOINCREMENT id handed out per table
    now,        \* CURRENT_TIMESTAMP, in whole seconds
    req,        \* the input of a client / grading call (pure-function specifications)
    last        \* the last operation performed and what it returned

vars == <<notes, questions, answers, seq, now, req, last>>

\* Python's None for a string argument; an optional id is the set {} (None) or {id}.
None == "None"
NoId == {}
Some(x) == {x}
TheId(o) == CHOOSE x \in o : TRUE

Min(a, b) == IF a <= b THEN a ELSE b
Max(a, b) == IF a >= b THEN a ELSE b

Range(s) == {s[i] : i \in 1..Len(s)}

\* All sequences of length k of distinct elements of S.
InjSeqs(S, k) ==
    {s \in [1..k -> S] : \A i, j \in 1..k : i # j => s[i] # s[j]}

(***************************************************************************)
(* Bounds of the model.                                                    *)
(***************************************************************************)
MaxNotes == 2      \* notes ever inserted
MaxQid == 3        \* question ids ever handed out
MaxAnswers == 3    \* answer records ever inserted
MaxClock == 2      \* seconds the clock may advance
MaxBatch == 2      \* drafts in one batch
MaxLimit == 2      \* largest limit a query passes

(***************************************************************************)
(* Drafts, as generate_questions_from_note hands them to the repository.   *)
(***************************************************************************)
Draft(c, tag, ty, ans) ==
    [content |-> c, knowledge_tag |-> tag, q_type |-> ty, answer |-> ans]

Drafts ==
    { Draft("a", "t1", "single_choice", "C"),
      Draft("a", "t2", "short_answer", "x"),
      Draft("b", "t2", "short_answer", "y"),
      Draft("", "t1", "single_choice", "A"),
      Draft("c", "t1", "essay", "z") }

Batches == UNION {[1..k -> Drafts] : k \in 0..MaxBatch}

(***************************************************************************)
(* database.py: the schema. Every table has an AUTOINCREMENT id, so an id  *)
(* is never handed out twice, and notes / user_answers rows are stamped    *)
(* with CURRENT_TIMESTAMP (one-second resolution).                         *)
(***************************************************************************)
init_db ==
    /\ notes = <<>>
    /\ questions = <<>>
    /\ answers = <<>>
    /\ seq = [notes |-> 0, questions |-> 0, user_answers |-> 0]
    /\ now = 0

(***************************************************************************)
(* models.py                                                               *)
(***************************************************************************)
insert_note(tbl, id, ts) == Append(tbl, [id |-> id, created_at |-> ts])

\* The batch loop: `existing' is the snapshot of stored non-empty contents,
\* updated as rows are added. Returns the table after the batch.
RECURSIVE insert_loop(_, _, _, _, _)
insert_loop(tbl, existing, note_id, drafts, nextId) ==
    IF drafts = <<>> THEN tbl
    ELSE LET q == Head(drafts)
             content == q.content
         IN  IF content = "" \/ content \in existing
             THEN insert_loop(tbl, existing, note_id, Tail(drafts), nextId)
             ELSE insert_loop(
                    Append(tbl, [id |-> nextId, note_id |-> note_id,
                                 knowledge_tag |-> q.knowledge_tag,
                                 q_type |-> q.q_type, content |-> content,
                                 answer |-> q.answer]),
                    existing \cup {content}, note_id, Tail(drafts), nextId + 1)

\* Mutant: the snapshot of existing contents is taken for the batch's note only.
insert_question_batch_per_note(tbl, note_id, drafts, lastId) ==
    LET existing_contents ==
            {tbl[i].content : i \in {j \in 1..Len(tbl) : tbl[j].note_id = note_id}} \ {""}
    IN  insert_loop(tbl, existing_contents, note_id, drafts, lastId + 1)

insert_question_batch(tbl, note_id, drafts, lastId) ==
    LET existing_contents == {tbl[i].content : i \in 1..Len(tbl)} \ {""}
    IN  insert_loop(tbl, existing_contents, note_id, drafts, lastId + 1)

\* Mutant: one record per question, an earlier one is replaced.
insert_answer_upsert(tbl, id, question_id, is_correct, ts) ==
    Append(SelectSeq(tbl, LAMBDA a : a.question_id # question_id),
           [id |-> id, question_id |-> question_id,
            is_correct |-> is_correct, created_at |-> ts])

insert_answer(tbl, id, question_id, is_correct, ts) ==
    Append(tbl, [id |-> id, question_id |-> question_id,
                 is_correct |-> is_correct, created_at |-> ts])

\* Mutant: the DELETE on user_answers is left out.
delete_note_keep_answers(db, note_id) ==
    [notes |-> SelectSeq(db.notes, LAMBDA n : n.id # note_id),
     questions |-> SelectSeq(db.questions, LAMBDA q : q.note_id # note_id),
     answers |-> db.answers]

\* delete_note: the three DELETE statements, committed together.
delete_note(db, note_id) ==
    LET q_ids == {db.questions[i].id :
                    i \in {j \in 1..Len(db.questions) : db.questions[j].note_id = note_id}}
        KeepA(a) == ~(q_ids # {} /\ a.question_id \in q_ids)
        KeepQ(q) == q.note_id # note_id
        KeepN(n) == n.id # note_id
    IN  [notes |-> SelectSeq(db.notes, KeepN),
         questions |-> SelectSeq(db.questions, KeepQ),
         answers |-> SelectSeq(db.answers, KeepA)]

\* `last' while no request is being answered. Requests are served one at a
\* time: an operation starts when the previous response has been sent.
Idle == [op |-> "idle"]

\* The response of the last request is sent and its result dropped.
Respond ==
    /\ last # Idle
    /\ last' = Idle
    /\ UNCHANGED <<notes, questions, answers, seq, now, req>>

Db == [notes |-> notes, questions |-> questions, answers |-> answers]

(***************************************************************************)
(* The store's operations as actions (each one request, run to completion).*)
(***************************************************************************)
Tick ==
    /\ last = Idle
    /\ now < MaxClock
    /\ now' = now + 1
    /\ last' = Idle
    /\ UNCHANGED <<notes, questions, answers, seq, req>>

InsertNote ==
    /\ last = Idle
    /\ seq.notes < MaxNotes
    /\ notes' = insert_note(notes, seq.notes + 1, now)
    /\ seq' = [seq EXCEPT !.notes = @ + 1]
    /\ last' = Idle
    /\ UNCHANGED <<questions, answers, now, req>>

InsertQuestionBatch(note_id, drafts) ==
    /\ last = Idle
    /\ questions' = insert_question_batch(questions, note_id, drafts, seq.questions)
    /\ seq' = [seq EXCEPT !.questions = @ + (Len(questions') - Len(questions))]
    /\ seq'.questions <= MaxQid
    /\ last' = [op |-> "insert_question_batch", drafts |-> Len(drafts),
                inserted |-> Len(questions') - Len(questions)]
    /\ UNCHANGED <<notes, answers, now, req>>

InsertAnswer(question_id, is_correct) ==
    /\ last = Idle
    /\ seq.user_answers < MaxAnswers
    /\ answers' = insert_answer(answers, seq.user_answers + 1, question_id, is_correct, now)
    /\ seq' = [seq EXCEPT !.user_answers = @ + 1]
    /\ last' = Idle
    /\ UNCHANGED <<notes, questions, now, req>>

DeleteNote(note_id) ==
    LET db == delete_note(Db, note_id)
    IN  /\ last = Idle
        /\ notes' = db.notes
        /\ questions' = db.questions
        /\ answers' = db.answers
        /\ last' = [op |-> "delete_note", note_id |-> note_id, before |-> Db]
        /\ UNCHANGED <<seq, now, req>>

\* The note scope of get_questions_by_knowledge. ORDER BY created_at DESC LIMIT 1
\* returns one of the rows with the greatest created_at: the timestamp has
\* one-second resolution and SQL leaves the order of equal keys open, so the
\* operator yields the set of ids the statement may return.
resolve_note_id(tbl, note_id, scope) ==
    IF note_id # NoId THEN {note_id}
    ELSE IF scope = "latest"
         THEN IF tbl = <<>> THEN {NoId}
              ELSE {Some(tbl[i].id) : i \in {j \in 1..Len(tbl) :
                        \A k \in 1..Len(tbl) : tbl[k].created_at <= tbl[j].created_at}}
         ELSE {NoId}

\* Mutant: the knowledge_tag IN (...) condition is left out.
where_clause_no_tags(q, resolved_note_id, tags, q_type) ==
    /\ (resolved_note_id # NoId => q.note_id = TheId(resolved_note_id))
    /\ (q_type \in {"single_choice", "short_answer"} => q.q_type = q_type)

\* The WHERE clause built by get_questions_by_knowledge.
where_clause(q, resolved_note_id, tags, q_type) ==
    /\ (resolved_note_id # NoId => q.note_id = TheId(resolved_note_id))
    /\ (tags # {} => q.knowledge_tag \in tags)
    /\ (q_type \in {"single_choice", "short_answer"} => q.q_type = q_type)

\* LIMIT ?: a negative limit is no limit (SQLite).
sql_limit(n, limit) == IF limit < 0 THEN n ELSE Min(limit, n)

\* The results get_questions_by_knowledge may return (ORDER BY RANDOM()),
\* each a sequence of question rows, paired with the note id it resolved.
get_questions_by_knowledge(db, tags, limit, note_id, scope, q_type) ==
    UNION {
      LET rows == {db.questions[i] : i \in {j \in 1..Len(db.questions) :
                      where_clause(db.questions[j], r, tags, q_type)}}
      IN  {[resolved |-> r, rows |-> s] :
              s \in InjSeqs(rows, sql_limit(Cardinality(rows), limit))}
      : r \in resolve_note_id(db.notes, note_id, scope) }

\* Mutant: MIN(a.created_at) instead of MAX.
wrong_key_min(db, q) ==
    LET ts == {db.answers[i].created_at : i \in {j \in 1..Len(db.answers) :
                  db.answers[j].question_id = q.id /\ ~db.answers[j].is_correct}}
    IN  CHOOSE t \in ts : \A u \in ts : t <= u

\* MAX(a.created_at) over the wrong answers joined to question q.
wrong_key(db, q) ==
    LET ts == {db.answers[i].created_at : i \in {j \in 1..Len(db.answers) :
                  db.answers[j].question_id = q.id /\ ~db.answers[j].is_correct}}
    IN  CHOOSE t \in ts : \A u \in ts : u <= t

\* The results get_wrong_questions may return: JOIN, WHERE is_correct = 0,
\* GROUP BY q.id, ORDER BY MAX(created_at) DESC (equal keys in any order), LIMIT.
get_wrong_questions(db, limit) ==
    LET joined == {db.questions[i] : i \in {j \in 1..Len(db.questions) :
                      \E k \in 1..Len(db.answers) :
                          /\ db.answers[k].question_id = db.questions[j].id
                          /\ ~db.answers[k].is_correct}}
        n == Cardinality(joined)
        ordered == {s \in InjSeqs(joined, n) :
                      \A i, j \in 1..n : i < j => wrong_key(db, s[i]) >= wrong_key(db, s[j])}
    IN  {SubSeq(s, 1, sql_limit(n, limit)) : s \in ordered}

GetQuestionsByKnowledge(tags, limit, note_id, scope, q_type) ==
    /\ last = Idle
    /\ \E r \in get_questions_by_knowledge(Db, tags, limit, note_id, scope, q_type) :
          last' = [op |-> "get_questions_by_knowledge", tags |-> tags, limit |-> limit,
                   note_id |-> note_id, scope |-> scope, q_type |-> q_type,
                   resolved |-> r.resolved, rows |-> r.rows]
    /\ UNCHANGED <<notes, questions, answers, seq, now, req>>

GetWrongQuestions(limit) ==
    /\ last = Idle
    /\ \E r \in get_wrong_questions(Db, limit) :
          last' = [op |-> "get_wrong_questions", limit |-> limit, rows |-> r]
    /\ UNCHANGED <<notes, questions, answers, seq, now, req>>

(***************************************************************************)
(* Inputs.                                                                 *)
(***************************************************************************)
NoteIds == 1..MaxNotes
QuestionIds == 1..MaxQid
Limits == (0 - 1)..MaxLimit
TagSets == {{}, {"t1"}}
Scopes == {None, "latest", "all"}
QTypes == {None, "single_choice", "essay"}
Singles == {<<d>> : d \in Drafts}
QueryDrafts == {<<d>> : d \in {d \in Drafts : d.content # "" /\ d.answer # "x"}}
OptNoteIds == {NoId} \cup {Some(i) : i \in NoteIds}
TwoDrafts == {<<d>> : d \in {d \in Drafts : d.q_type = "short_answer"}}

\* No client call is under way.
NoCall == [fn |-> "none"]

Init ==
    /\ init_db
    /\ req = NoCall
    /\ last = Idle

(***************************************************************************)
(* Spec: the repository's writers, one request at a time.                  *)
(***************************************************************************)
Next ==
    \/ Respond
    \/ InsertNote
    \/ \E n \in 1..seq.notes, b \in Batches : InsertQuestionBatch(n, b)
    \/ \E n \in NoteIds : DeleteNote(n)

Spec == Init /\ [][Next]_vars

(***************************************************************************)
(* SpecCascade: writers with answer records.                               *)
(***************************************************************************)
NextCascade ==
    \/ Respond
    \/ InsertNote
    \/ \E n \in 1..seq.notes, b \in TwoDrafts : InsertQuestionBatch(n, b)
    \/ \E q \in 1..seq.questions : InsertAnswer(q, FALSE)
    \/ \E n \in NoteIds : DeleteNote(n)

SpecCascade == Init /\ [][NextCascade]_vars

(***************************************************************************)
(* SpecQuery: writers and get_questions_by_knowledge over its filters.     *)
(***************************************************************************)
NextQuery ==
    \/ Respond
    \/ InsertNote
    \/ \E n \in 1..seq.notes, b \in QueryDrafts : InsertQuestionBatch(n, b)
    \/ \E n \in NoteIds : DeleteNote(n)
    \/ \E t \in TagSets, l \in Limits, n \in OptNoteIds, sc \in {None, "latest"}, ty \in QTypes :
          GetQuestionsByKnowledge(t, l, n, sc, ty)

SpecQuery == Init /\ [][NextQuery]_vars

(***************************************************************************)
(* SpecScope: notes created over time and the note scope of a query.       *)
(***************************************************************************)
NextScope ==
    \/ Respond
    \/ Tick
    \/ InsertNote
    \/ \E n \in 1..seq.notes, b \in TwoDrafts : InsertQuestionBatch(n, b)
    \/ \E n \in NoteIds : DeleteNote(n)
    \/ \E n \in OptNoteIds, sc \in Scopes :
          GetQuestionsByKnowledge({}, MaxLimit, n, sc, None)

SpecScope == Init /\ [][NextScope]_vars

(***************************************************************************)
(* SpecWrong: answers over time and get_wrong_questions.                   *)
(***************************************************************************)
NextWrong ==
    \/ Respond
    \/ Tick
    \/ \E b \in TwoDrafts : InsertQuestionBatch(1, b)
    \/ \E q \in 1..(seq.questions + 1), c \in BOOLEAN : InsertAnswer(q, c)
    \/ \E l \in Limits : GetWrongQuestions(l)

SpecWrong == Init /\ [][NextWrong]_vars


(***************************************************************************)
(* coze_client.py / dashscope_client.py (the two files hold the same code).*)
(*                                                                         *)
(* A decoded JSON value is a record tagged by t. A dict keeps its items in *)
(* insertion order. Python's None is JNull. A float is [f, v]: finite with *)
(* v in units of 1/ONE, or nan / inf / ninf (json.loads accepts NaN,       *)
(* Infinity and -Infinity).                                                *)
(***************************************************************************)
ONE == 100000

Fin(v) == [f |-> "fin", v |-> v]
NaN == [f |-> "nan", v |-> 0]
PosInf == [f |-> "inf", v |-> 0]
NegInf == [f |-> "ninf", v |-> 0]

JNull == [t |-> "null"]
JBool(b) == [t |-> "bool", b |-> b]
JNum(x) == [t |-> "num", x |-> x]
JStr(s) == [t |-> "str", s |-> s]
JList(items) == [t |-> "list", items |-> items]
JDict(items) == [t |-> "dict", items |-> items]
KV(k, v) == [k |-> k, v |-> v]

\* The text of a string value:
\*   empty    ""
\*   blank    white space only
\*   plain    text that is neither JSON nor a numeral
\*   numeral  the digits of a number x
\*   json     the serialisation of a JSON value, bare (fence "none"), inside
\*            ``` ... ``` (fence "bare") or inside ```json ... ``` (fence "json");
\*            the serialisation holds the letters `json' nowhere else.
Empty == [kind |-> "empty"]
Blank == [kind |-> "blank"]
Plain(id) == [kind |-> "plain", id |-> id]
Numeral(x) == [kind |-> "numeral", x |-> x]
JsonText(fence, value) == [kind |-> "json", fence |-> fence, value |-> value]

\* What an expression evaluates to: a value, or an exception raised.
Value(v) == [kind |-> "value", v |-> v]
Raise(exc) == [kind |-> "raise", exc |-> exc]

HasKey(d, k) == \E i \in 1..Len(d.items) : d.items[i].k = k
Get(d, k, default) ==
    IF HasKey(d, k)
    THEN d.items[CHOOSE i \in 1..Len(d.items) : d.items[i].k = k].v
    ELSE default

\* Python truthiness (`if not output_text', `if s', `x or y').
Truthy(v) ==
    CASE v.t = "null" -> FALSE
      [] v.t = "bool" -> v.b
      [] v.t = "num"  -> ~(v.x.f = "fin" /\ v.x.v = 0)
      [] v.t = "str"  -> v.s.kind # "empty"
      [] v.t = "list" -> v.items # <<>>
      [] v.t = "dict" -> v.items # <<>>

\* _extract_first_str: the first non-empty string of the tree, depth first;
\* a string argument is returned as it is, anything without one gives None.
RECURSIVE extract_first_str(_)
RECURSIVE extract_first_of(_)
extract_first_str(obj) ==
    IF obj.t = "str" THEN obj
    ELSE IF obj.t = "dict" THEN extract_first_of([i \in 1..Len(obj.items) |-> obj.items[i].v])
    ELSE IF obj.t = "list" THEN extract_first_of(obj.items)
    ELSE JNull

extract_first_of(vals) ==
    IF vals = <<>> THEN JNull
    ELSE LET r == extract_first_str(Head(vals))
         IN  IF Truthy(r) THEN r ELSE extract_first_of(Tail(vals))

\* output_text after the envelope lookup and the fallback scan.
find_output_text(data) ==
    IF data.t # "dict" THEN Raise("AttributeError")          \* data.get
    ELSE LET output == Get(data, "output", JNull)
             choices == IF output.t = "dict" THEN Get(output, "choices", JNull) ELSE JNull
             known ==
                IF output.t # "dict" THEN Value(JNull)
                ELSE IF choices.t = "list" /\ choices.items # <<>>
                     THEN IF choices.items[1].t # "dict"
                          THEN Raise("AttributeError")       \* choices[0].get
                          ELSE Value(Get(choices.items[1], "text", JNull))
                     ELSE IF HasKey(output, "text")
                          THEN Value(Get(output, "text", JNull))
                          ELSE Value(JNull)
         IN  IF known.kind = "raise" THEN known
             ELSE IF ~Truthy(known.v) THEN Value(extract_first_str(data))
             ELSE known

\* output_text.strip(), the code-fence cleaning and json.loads.
load_output_text(v) ==
    IF v.t # "str" THEN Raise("AttributeError")              \* output_text.strip
    ELSE CASE v.s.kind = "json"    -> Value(v.s.value)
           [] v.s.kind = "numeral" -> Value(JNum(v.s.x))
           [] OTHER                -> Raise("JSONDecodeError")

\* requests.post, raise_for_status (raises for 4xx and 5xx) and resp.json().
NotJson == [t |-> "notjson"]
HttpError == [kind |-> "error"]
Response(status, body) == [kind |-> "response", status |-> status, body |-> body]

fetch(http) ==
    IF http.kind = "error" THEN Raise("RequestException")
    ELSE IF http.status >= 400 /\ http.status < 600 THEN Raise("HTTPError")
    ELSE IF http.body = NotJson THEN Raise("JSONDecodeError")
    ELSE Value(http.body)

\* ---- score_answer -------------------------------------------------------
\* float(x)
py_float(v) ==
    CASE v.t = "num" -> Value(v.x)
      [] v.t = "bool" -> Value(Fin(IF v.b THEN ONE ELSE 0))
      [] v.t = "str" -> IF v.s.kind = "numeral" THEN Value(v.s.x) ELSE Raise("ValueError")
      [] OTHER -> Raise("TypeError")

\* Mutant: the score is clamped without the division of a 0-100 score.
normalize_score_clamp_only(x) ==
    IF x.f = "fin" THEN Fin(Max(0, Min(ONE, x.v)))
    ELSE IF x.f = "ninf" THEN Fin(0) ELSE Fin(ONE)

\* if score > 1: score = score / 100.0;  score = max(0.0, min(1.0, score))
\* min(1.0, s) is s when s < 1.0 and else 1.0; max(0.0, m) is m when m > 0.0
\* and else 0.0 (so nan becomes 1.0).
normalize_score(x) ==
    LET gt1 == x.f = "inf" \/ (x.f = "fin" /\ x.v > ONE)
        s == IF gt1 /\ x.f = "fin" THEN Fin(x.v \div 100) ELSE x
        m == IF s.f = "ninf" \/ (s.f = "fin" /\ s.v < ONE) THEN s ELSE Fin(ONE)
    IN  IF m.f = "inf" \/ (m.f = "fin" /\ m.v > 0) THEN m ELSE Fin(0)

Scored(score, comment) == [kind |-> "return", score |-> score, comment |-> comment]

\* The body of the try block of score_answer.
score_answer_try(http) ==
    LET data == fetch(http)
        text == IF data.kind = "raise" THEN data ELSE find_output_text(data.v)
        js == IF text.kind = "raise" \/ ~Truthy(text.v) THEN text ELSE load_output_text(text.v)
    IN  IF data.kind = "raise" THEN data
        ELSE IF text.kind = "raise" THEN text
        ELSE IF ~Truthy(text.v) THEN Scored(0, "no_content")
        ELSE IF js.kind = "raise" THEN js
        ELSE IF js.v.t # "dict" THEN Raise("AttributeError")     \* js.get
        ELSE LET score == py_float(Get(js.v, "score", JNum(Fin(0))))
                 c == Get(js.v, "comment", JStr(Empty))
                 comment == IF c.t = "str" /\ c.s.kind = "empty"
                            THEN "default" ELSE "from_model"
             IN  IF score.kind = "raise" THEN score
                 ELSE Scored(normalize_score(score.v).v, comment)

\* Mutant: no except clause, the exception reaches the caller.
score_answer_uncaught(api_key, http) ==
    IF ~api_key THEN Scored(0, "no_api_key") ELSE score_answer_try(http)

score_answer(api_key, http) ==
    IF ~api_key THEN Scored(0, "no_api_key")
    ELSE LET r == score_answer_try(http)
         IN  IF r.kind = "raise" THEN Scored(0, "failed") ELSE r

\* ---- generate_questions_from_note ---------------------------------------
Returned(v) == [kind |-> "return", v |-> v]

project(q) ==
    [knowledge_tag |-> Get(q, "knowledge_tag", JStr(Empty)),
     q_type |-> Get(q, "q_type", JStr(Empty)),
     content |-> Get(q, "content", JStr(Empty)),
     options |-> LET o == Get(q, "options", JList(<<>>))
                 IN  IF Truthy(o) THEN o ELSE JList(<<>>),
     answer |-> Get(q, "answer", JStr(Empty)),
     analysis |-> Get(q, "analysis", JStr(Empty)),
     difficulty |-> Get(q, "difficulty", JStr(Empty))]

\* Mutant: an element that is no mapping ends the loop.
RECURSIVE parse_questions_stop(_, _)
parse_questions_stop(raw, parsed) ==
    IF raw = <<>> THEN parsed
    ELSE IF Head(raw).t # "dict" THEN parsed
    ELSE parse_questions_stop(Tail(raw), Append(parsed, project(Head(raw))))

\* for q in questions_raw: ... parsed.append(...)
RECURSIVE parse_questions(_, _)
parse_questions(raw, parsed) ==
    IF raw = <<>> THEN parsed
    ELSE IF Head(raw).t # "dict" THEN parse_questions(Tail(raw), parsed)
    ELSE parse_questions(Tail(raw), Append(parsed, project(Head(raw))))

\* The body of the try block of generate_questions_from_note.
generate_try(http) ==
    LET data == fetch(http)
        text == IF data.kind = "raise" THEN data ELSE find_output_text(data.v)
        raw == IF text.kind = "raise" \/ ~Truthy(text.v) THEN text ELSE load_output_text(text.v)
    IN  IF data.kind = "raise" THEN data
        ELSE IF text.kind = "raise" THEN text
        ELSE IF ~Truthy(text.v) THEN Returned(<<>>)
        ELSE IF raw.kind = "raise" THEN raw
        ELSE IF raw.v.t # "list" THEN Returned(<<>>)
        ELSE Returned(parse_questions(raw.v.items, <<>>))

generate_questions_from_note(api_key, http) ==
    IF ~api_key THEN Returned(<<>>)
    ELSE LET r == generate_try(http)
         IN  IF r.kind = "raise" THEN Returned(<<>>) ELSE r


(***************************************************************************)
(* The clients' inputs: what the remote service may answer.                *)
(***************************************************************************)
MaxArray == 2      \* elements of a generated array

Statuses == {200, 300, 404, 500}
Fences == {"none", "bare", "json"}

\* The envelopes with a known text field, and others: no known field (the
\* text is nested elsewhere), a field before output, choices[0] not a mapping,
\* a top-level list.
KnownEnvelopes(x) ==
    { JDict(<<KV("output", JDict(<<KV("choices", JList(<<JDict(<<KV("text", x)>>)>>))>>))>>),
      JDict(<<KV("output", JDict(<<KV("text", x)>>))>>) }

OtherEnvelopes(x) ==
    { JDict(<<KV("result", JList(<<x>>))>>),
      JDict(<<KV("request_id", JStr(Plain("req-1"))), KV("output", JDict(<<KV("text", x)>>))>>),
      JDict(<<KV("output", JDict(<<KV("choices", JList(<<x>>))>>))>>),
      JList(<<x>>) }

Envelopes(x) == KnownEnvelopes(x) \cup OtherEnvelopes(x)

\* Values found where the text is expected that are no JSON text at all.
OddTexts ==
    { JStr(Plain("sorry")), JStr(Empty), JStr(Blank), JStr(Numeral(Fin(50000))),
      JNull, JNum(Fin(5 * ONE)) }

HttpOutcomes(texts) ==
    {HttpError}
    \cup {Response(st, NotJson) : st \in Statuses}
    \cup {Response(st, e) : st \in Statuses, e \in UNION {Envelopes(x) : x \in texts}}

Calls(fn, texts) ==
    {[fn |-> fn, api_key |-> k, http |-> h] : k \in BOOLEAN, h \in HttpOutcomes(texts)}

\* -0.2, 0, 0.5, 0.6, 1.0, 1.4, 85, 100, 150 and the non-finite floats.
RawScores ==
    {Fin(v) : v \in {0 - 20000, 0, 50000, 60000, ONE, 140000, 85 * ONE, 100 * ONE, 150 * ONE}}
    \cup {NaN, PosInf, NegInf}

ScoreItems ==
    {<<>>} \cup {<<KV("score", v)>> :
        v \in {JNum(x) : x \in RawScores}
              \cup {JStr(Numeral(Fin(90000))), JStr(Plain("high")), JNull, JBool(TRUE), JList(<<>>)}}
CommentItems ==
    {<<>>} \cup {<<KV("comment", v)>> : v \in {JStr(Empty), JStr(Plain("good")), JNull}}

ScoreTexts ==
    {JStr(JsonText(f, JDict(sc \o co))) : f \in Fences, sc \in ScoreItems, co \in CommentItems}
    \cup {JStr(JsonText("none", JList(<<>>)))}
    \cup OddTexts

FullElement ==
    JDict(<<KV("knowledge_tag", JStr(Plain("t1"))), KV("q_type", JStr(Plain("single_choice"))),
            KV("content", JStr(Plain("a"))),
            KV("options", JList(<<JStr(Plain("A. x")), JStr(Plain("B. y"))>>)),
            KV("answer", JStr(Plain("A"))), KV("analysis", JStr(Plain("because"))),
            KV("difficulty", JStr(Plain("easy")))>>)

GenElements ==
    { FullElement,
      JDict(<<KV("content", JStr(Plain("b"))), KV("options", JNull)>>),
      JDict(<<>>),
      JStr(Plain("note")), JNum(Fin(ONE)), JNull, JList(<<>>) }

GenTexts ==
    {JStr(JsonText(f, JList(a))) :
        f \in Fences, a \in UNION {[1..k -> GenElements] : k \in 0..MaxArray}}
    \cup {JStr(JsonText("none", JDict(<<KV("questions", JList(<<FullElement>>))>>)))}
    \cup OddTexts

(***************************************************************************)
(* SpecScore / SpecGen: one call of a client on an answer of the service.  *)
(***************************************************************************)
ScoreAnswer ==
    /\ last = Idle
    /\ req.fn = "score_answer"
    /\ last' = [op |-> "score_answer", out |-> score_answer(req.api_key, req.http)]
    /\ UNCHANGED <<notes, questions, answers, seq, now, req>>

GenerateQuestions ==
    /\ last = Idle
    /\ req.fn = "generate_questions_from_note"
    /\ last' = [op |-> "generate_questions_from_note",
                out |-> generate_questions_from_note(req.api_key, req.http)]
    /\ UNCHANGED <<notes, questions, answers, seq, now, req>>

InitScore ==
    /\ init_db
    /\ req \in Calls("score_answer", ScoreTexts)
    /\ last = Idle

NextScore ==
    \/ Respond
    \/ ScoreAnswer

SpecScore == InitScore /\ [][NextScore]_vars

InitGen ==
    /\ init_db
    /\ req \in Calls("generate_questions_from_note", GenTexts)
    /\ last = Idle

NextGen ==
    \/ Respond
    \/ GenerateQuestions

SpecGen == InitGen /\ [][NextGen]_vars


(***************************************************************************)
(* app.py: grading of a question that is not short_answer. A string is the *)
(* sequence of its code points.                                            *)
(***************************************************************************)
MaxLen == 2        \* length of the enumerated answers

\* str.isspace() of one character, up to U+00FF.
IsSpace(c) == c \in {9, 10, 11, 12, 13, 28, 29, 30, 31, 32, 133, 160}

\* str.strip()
RECURSIVE lstrip(_)
lstrip(s) == IF s # <<>> /\ IsSpace(Head(s)) THEN lstrip(Tail(s)) ELSE s
RECURSIVE rstrip(_)
rstrip(s) == IF s # <<>> /\ IsSpace(s[Len(s)]) THEN rstrip(SubSeq(s, 1, Len(s) - 1)) ELSE s
strip(s) == rstrip(lstrip(s))

\* str.upper() of one character: a string, longer than the character for
\* U+00DF, whose upper case is "SS".
py_upper(c) ==
    IF c >= 97 /\ c <= 122 THEN <<c - 32>>
    ELSE IF c = 223 THEN <<83, 83>>
    ELSE <<c>>

\* a <= b on strings: by code point, a proper prefix first.
RECURSIVE str_le(_, _)
str_le(a, b) ==
    IF a = <<>> THEN TRUE
    ELSE IF b = <<>> THEN FALSE
    ELSE IF Head(a) # Head(b) THEN Head(a) < Head(b)
    ELSE str_le(Tail(a), Tail(b))

normalize_choice(s0) ==
    LET s == strip(s0)
    IN  IF s = <<>> THEN <<>>
        ELSE LET first == py_upper(s[1])
             IN  IF str_le(<<65>>, first) /\ str_le(first, <<90>>) THEN first ELSE s

\* The else branch of api_submit_answer.
grade_choice(user_answer, answer) ==
    LET ua == strip(user_answer)
        sa == strip(answer)
    IN  normalize_choice(ua) = normalize_choice(sa)

\* The answers: every string of up to MaxLen characters of " .1ACac" and
\* U+00DF, and the strings "c. some text" and "C. Option text".
Alphabet == {32, 46, 49, 65, 67, 97, 99, 223}
Str_c_some_text == <<99, 46, 32, 115, 111, 109, 101, 32, 116, 101, 120, 116>>
Str_C == <<67>>
Str_C_Option_text == <<67, 46, 32, 79, 112, 116, 105, 111, 110, 32, 116, 101, 120, 116>>
AnswerStrings ==
    UNION {[1..k -> Alphabet] : k \in 0..MaxLen} \cup {Str_c_some_text, Str_C_Option_text}

StoredAnswers ==
    UNION {[1..k -> Alphabet] : k \in 0..(MaxLen - 1)} \cup {Str_C, Str_C_Option_text}

get_question_by_id(tbl, question_id) ==
    {tbl[i] : i \in {j \in 1..Len(tbl) : tbl[j].id = question_id}}

\* is_correct = score_0_1 >= 0.6
PassMark == (6 * ONE) \div 10

\* POST /api/answers/submit with request r: 400 without a question_id, 404
\* for an unknown question, else grade (a short_answer question through the
\* scoring client, whose HTTP outcome is r.scoring), store the answer and
\* report.
SubmitAnswer(r) ==
    /\ last = Idle
    /\ r.fn = "api_submit_answer"
    /\ IF r.question_id = NoId
       THEN /\ last' = [op |-> "api_submit_answer", status |-> 400, request |-> r, before |-> Db]
            /\ UNCHANGED <<answers, seq>>
       ELSE LET found == get_question_by_id(questions, TheId(r.question_id))
            IN  IF found = {}
                THEN /\ last' = [op |-> "api_submit_answer", status |-> 404,
                                 request |-> r, before |-> Db]
                     /\ UNCHANGED <<answers, seq>>
                ELSE LET question == TheId(found)
                         scored == score_answer(r.scoring.api_key, r.scoring.http)
                         is_correct ==
                            IF question.q_type = "short_answer"
                            THEN scored.score >= PassMark
                            ELSE grade_choice(r.user_answer, question.answer)
                     IN  /\ seq.user_answers < MaxAnswers
                         /\ answers' = insert_answer(answers, seq.user_answers + 1,
                                                     question.id, is_correct, now)
                         /\ seq' = [seq EXCEPT !.user_answers = @ + 1]
                         /\ last' = [op |-> "api_submit_answer", status |-> 200,
                                     request |-> r, before |-> Db,
                                     q_type |-> question.q_type,
                                     answer |-> question.answer, is_correct |-> is_correct]
    /\ UNCHANGED <<notes, questions, now, req>>

\* The scoring client is not reached by a question that is not short_answer.
NoScoring == [api_key |-> FALSE, http |-> HttpError]

\* One note with one stored question, and one submission to make.
InitGrade ==
    /\ \E ty \in {"single_choice", "essay"}, sa \in StoredAnswers :
          /\ notes = insert_note(<<>>, 1, 0)
          /\ questions = <<[id |-> 1, note_id |-> 1, knowledge_tag |-> "t1",
                            q_type |-> ty, content |-> "a", answer |-> sa]>>
    /\ answers = <<>>
    /\ seq = [notes |-> 1, questions |-> 1, user_answers |-> 0]
    /\ now = 0
    /\ req \in {[fn |-> "api_submit_answer", question_id |-> Some(q), user_answer |-> ua,
                   scoring |-> NoScoring] :
                  q \in 1..2, ua \in AnswerStrings}
    /\ last = Idle

NextGrade ==
    \/ Respond
    \/ SubmitAnswer(req)

SpecGrade == InitGrade /\ [][NextGrade]_vars

(***************************************************************************)
(* Properties of the store.                                                *)
(***************************************************************************)
Rows(tbl) == {tbl[i] : i \in 1..Len(tbl)}
NoDuplicates(s) == \A i, j \in 1..Len(s) : i # j => s[i] # s[j]

\* C1: the questions table never holds two rows with the same non-empty
\* content, and never a row with empty content.
C1_DedupInvariant ==
    /\ \A i, j \in 1..Len(questions) :
          i # j => questions[i].content # questions[j].content
    /\ \A i \in 1..Len(questions) : questions[i].content # ""

\* A batch met a draft it had to skip while the same content is stored, with
\* two notes in the store.
C1_Witness ==
    /\ last.op = "insert_question_batch"
    /\ last.drafts = 2
    /\ last.inserted = 1
    /\ Len(notes) = 2
    /\ \E i, j \in 1..Len(questions) :
          questions[i].content = "a" /\ questions[j].note_id # questions[i].note_id

\* C2: delete_note(n) removes note n, the questions of n and the answer
\* records of those questions, and leaves every other row as it was (and in
\* its place).
C2_DeleteCascadeFrame ==
    last.op = "delete_note" =>
        LET b == last.before
            n == last.note_id
            gone == {q.id : q \in {r \in Rows(b.questions) : r.note_id = n}}
        IN  /\ Rows(notes) = {r \in Rows(b.notes) : r.id # n}
            /\ Rows(questions) = {r \in Rows(b.questions) : r.note_id # n}
            /\ Rows(answers) = {r \in Rows(b.answers) : r.question_id \notin gone}
            /\ Len(notes) = Cardinality(Rows(notes))
            /\ Len(questions) = Cardinality(Rows(questions))
            /\ Len(answers) = Cardinality(Rows(answers))
            /\ \A i, j \in 1..Len(answers) : i < j => answers[i].id < answers[j].id
            /\ \A i, j \in 1..Len(questions) : i < j => questions[i].id < questions[j].id
            /\ \A i, j \in 1..Len(notes) : i < j => notes[i].id < notes[j].id

\* A delete that removed a question with an answer record while another
\* note's question and its answer record stayed.
C2_Witness ==
    /\ last.op = "delete_note"
    /\ \E q \in Rows(last.before.questions) :
          /\ q.note_id = last.note_id
          /\ \E a \in Rows(last.before.answers) : a.question_id = q.id
    /\ \E q \in Rows(questions) : \E a \in Rows(answers) : a.question_id = q.id
    /\ Len(notes) = 1

C8_AtMostLimitRows ==
    last.op \in {"get_questions_by_knowledge", "get_wrong_questions"} =>
        /\ Len(last.rows) <= Max(last.limit, 0)
        /\ NoDuplicates(last.rows)

\* C9: the note scope: an explicit note_id wins; else scope "latest" is the
\* note inserted last among the existing notes (none when there is no note);
\* any other scope is unscoped.
C9_NoteScope ==
    last.op = "get_questions_by_knowledge" =>
        last.resolved =
            IF last.note_id # NoId THEN last.note_id
            ELSE IF last.scope = "latest" /\ notes # <<>>
                 THEN Some(notes[Len(notes)].id)
                 ELSE NoId

\* The wrong answers of question id q, and the time of the newest of them.
WrongAnswersOf(q) == {a \in Rows(answers) : a.question_id = q /\ ~a.is_correct}
LastWrongAt(q) ==
    CHOOSE t \in {a.created_at : a \in WrongAnswersOf(q)} :
        \A a \in WrongAnswersOf(q) : a.created_at <= t
WrongQuestions == {q \in Rows(questions) : WrongAnswersOf(q.id) # {}}

\* C10: get_wrong_questions returns the existing questions with at least one
\* wrong answer, each once, newest wrong answer first, cut to limit (the
\* first limit of them, for a limit >= 0).
C10_WrongQuestions ==
    last.op = "get_wrong_questions" =>
        /\ Rows(last.rows) \subseteq WrongQuestions
        /\ NoDuplicates(last.rows)
        /\ \A i, j \in 1..Len(last.rows) :
              i < j => LastWrongAt(last.rows[i].id) >= LastWrongAt(last.rows[j].id)
        /\ \A q \in WrongQuestions \ Rows(last.rows) :
              \A r \in Rows(last.rows) : LastWrongAt(r.id) >= LastWrongAt(q.id)
        /\ (last.limit >= 0 =>
              Len(last.rows) = Min(last.limit, Cardinality(WrongQuestions)))
        /\ (last.limit < 0 => Rows(last.rows) = WrongQuestions)

\* Two wrong questions returned, the first one answered wrong twice: once
\* before and once after the other question's wrong answer.
C10_Witness ==
    /\ last.op = "get_wrong_questions"
    /\ Len(last.rows) = 2
    /\ \E a \in WrongAnswersOf(last.rows[1].id) :
          a.created_at < LastWrongAt(last.rows[2].id)
    /\ LastWrongAt(last.rows[1].id) > LastWrongAt(last.rows[2].id)

(***************************************************************************)
(* Properties of the clients.                                              *)
(***************************************************************************)
\* A well-formed scoring exchange: credential set, status 200, the text in a
\* known field, holding {"score": x, "comment": "good"}.
WellFormedScoreCalls(x) ==
    {[fn |-> "score_answer", api_key |-> TRUE, http |-> Response(200, e)] :
        e \in UNION {KnownEnvelopes(JStr(JsonText(f,
                        JDict(<<KV("score", JNum(x)), KV("comment", JStr(Plain("good")))>>)))) :
                     f \in Fences}}

ScoreMaps(raw, score) ==
    (last.op = "score_answer" /\ req \in WellFormedScoreCalls(Fin(raw)))
        => (last.out.kind = "return" /\ last.out.score = score)

\* C3 (amended): a raw score of 85 becomes 0.85, a raw score of 1.4 is read
\* as a 0-100 score and becomes 0.014, a raw score of -0.2 becomes 0.0.
C3_ScoreNormalization ==
    /\ ScoreMaps(85 * ONE, 85000)
    /\ ScoreMaps(140000, 1400)
    /\ ScoreMaps(0 - 20000, 0)

\* C3 as claimed: 85 becomes 0.85, 1.4 becomes 1.0, -0.2 becomes 0.0.
C3_AsClaimed ==
    /\ ScoreMaps(85 * ONE, 85000)
    /\ ScoreMaps(140000, ONE)
    /\ ScoreMaps(0 - 20000, 0)

\* A raw score of 1.4 has been normalised.
C3_Witness ==
    /\ last.op = "score_answer"
    /\ req \in WellFormedScoreCalls(Fin(140000))
    /\ last.out.score = 1400

\* float() accepts the value.
NumericScore(v) == v.t \in {"num", "bool"} \/ (v.t = "str" /\ v.s.kind = "numeral")

\* The exchange ends without a text to decode: no credential, transport
\* error, a refused status, a body that is no JSON, no text in the envelope.
NoPayload(r, refused) ==
    \/ ~r.api_key
    \/ r.http.kind = "error"
    \/ r.http.status \in refused
    \/ r.http.body = NotJson
    \/ find_output_text(r.http.body).kind = "raise"
    \/ ~Truthy(find_output_text(r.http.body).v)

PayloadOf(r) == load_output_text(find_output_text(r.http.body).v)

ScoreFailure(r, refused) ==
    \/ NoPayload(r, refused)
    \/ PayloadOf(r).kind = "raise"
    \/ PayloadOf(r).v.t # "dict"
    \/ /\ HasKey(PayloadOf(r).v, "score")
       /\ ~NumericScore(Get(PayloadOf(r).v, "score", JNull))

SoftFail(refused) ==
    last.op = "score_answer" =>
        /\ last.out.kind = "return"
        /\ last.out.score >= 0
        /\ last.out.score <= ONE
        /\ ScoreFailure(req, refused) =>
              /\ last.out.score = 0
              /\ last.out.comment \in {"no_api_key", "no_content", "failed"}

\* C4 (amended): score_answer never raises and returns a score in [0, 1]; it
\* returns 0.0 with a diagnostic comment without a credential, on a transport
\* error or a 4xx / 5xx status, and when the payload is no JSON object with a
\* numeric score.
C4_SoftFail == SoftFail(400..599)

\* C4 as claimed: the same, for every status outside 2xx.
C4_AsClaimed == SoftFail({st \in Statuses : st < 200 \/ st > 299})

\* An exception raised inside the call was turned into (0.0, comment).
C4_Witness ==
    /\ last.op = "score_answer"
    /\ req.api_key
    /\ score_answer_try(req.http).kind = "raise"
    /\ last.out = Scored(0, "failed")

GenFailure(r, refused) ==
    \/ NoPayload(r, refused)
    \/ PayloadOf(r).kind = "raise"
    \/ PayloadOf(r).v.t # "list"

IsMapping(v) == v.t = "dict"

Drafted(refused) ==
    last.op = "generate_questions_from_note" =>
        /\ last.out.kind = "return"
        /\ IF GenFailure(req, refused) THEN last.out.v = <<>>
           ELSE LET maps == SelectSeq(PayloadOf(req).v.items, IsMapping)
                IN  /\ Len(last.out.v) = Len(maps)
                    /\ \A i \in 1..Len(maps) :
                          /\ last.out.v[i].content = Get(maps[i], "content", JStr(Empty))
                          /\ last.out.v[i].answer = Get(maps[i], "answer", JStr(Empty))
                          /\ last.out.v[i].q_type = Get(maps[i], "q_type", JStr(Empty))

\* C5 (amended): generate_questions_from_note never raises; it returns the
\* empty list without a credential, on a transport error or a 4xx / 5xx
\* status, when no text is found and when the text is no JSON array;
\* otherwise one draft per mapping element, in order, the others skipped.
C5_Drafts == Drafted(400..599)

\* C5 as claimed: the same, for every status outside 2xx.
C5_AsClaimed == Drafted({st \in Statuses : st < 200 \/ st > 299})

\* An array of two elements, the first no mapping, gave one draft.
C5_Witness ==
    /\ last.op = "generate_questions_from_note"
    /\ ~GenFailure(req, 400..599)
    /\ Len(PayloadOf(req).v.items) = 2
    /\ ~IsMapping(PayloadOf(req).v.items[1])
    /\ Len(last.out.v) = 1
    /\ last.out.v[1].content = JStr(Plain("a"))

(***************************************************************************)
(* Properties of grading.                                                  *)
(***************************************************************************)
\* normalize as the specification words it: trimmed; "" for the empty string; the
\* upper-cased first character when that is a letter A-Z; else the trimmed
\* string.
ClaimedNormalize(s0) ==
    LET s == strip(s0)
    IN  IF s = <<>> THEN <<>>
        ELSE LET u == py_upper(s[1])
             IN  IF Len(u) = 1 /\ u[1] >= 65 /\ u[1] <= 90 THEN u ELSE s

\* C6: a submission to a question that is not short_answer is correct exactly
\* when normalize(userAnswer) = normalize(storedAnswer), normalize being as
\* the specification words it; normalize("c. some text") = normalize("C"), and
\* "C. Option text" against "C" is correct.
C6_GradedByNormalize ==
    /\ normalize_choice(Str_c_some_text) = normalize_choice(Str_C)
    /\ normalize_choice(<<>>) = <<>>
    /\ grade_choice(Str_C_Option_text, Str_C)
    /\ (last.op = "api_submit_answer" /\ last.status = 200) =>
          last.is_correct =
             (ClaimedNormalize(req.user_answer) = ClaimedNormalize(last.answer))

(***************************************************************************)
(* models.py: get_stats_overview and get_stats_by_week.                    *)
(***************************************************************************)
\* Clock ticks in one calendar week.
TicksPerWeek == 2

\* strftime('%Y-%W', created_at): the year-week key, which grows with time.
strftime_week(ts) == ts \div TicksPerWeek

\* a / b on integers: the quotient, kept as the fraction n / d.
py_div(a, b) == [n |-> a, d |-> b]
Zero == [n |-> 0, d |-> 1]

RECURSIVE Ascending(_)
Ascending(S) ==
    IF S = {} THEN <<>>
    ELSE LET m == CHOOSE x \in S : \A y \in S : x <= y
         IN  <<m>> \o Ascending(S \ {m})

Reverse(s) == [i \in 1..Len(s) |-> s[Len(s) + 1 - i]]

week_bucket(tbl, w) ==
    LET group == {i \in 1..Len(tbl) : strftime_week(tbl[i].created_at) = w}
        total == Cardinality(group)
        correct == Cardinality({i \in group : tbl[i].is_correct})
    IN  [week |-> w, total |-> total, correct |-> correct,
         accuracy |-> IF total # 0 THEN py_div(correct, total) ELSE Zero]

\* Mutant: ORDER BY week DESC.
get_stats_by_week_desc(tbl) ==
    LET weeks == Reverse(Ascending({strftime_week(tbl[i].created_at) : i \in 1..Len(tbl)}))
    IN  [i \in 1..Len(weeks) |-> week_bucket(tbl, weeks[i])]

\* GROUP BY week ORDER BY week, then one dict per row.
get_stats_by_week(tbl) ==
    LET weeks == Ascending({strftime_week(tbl[i].created_at) : i \in 1..Len(tbl)})
    IN  [i \in 1..Len(weeks) |-> week_bucket(tbl, weeks[i])]

get_stats_overview(tbl) ==
    LET total_answers == Len(tbl)
        correct_answers == Cardinality({i \in 1..Len(tbl) : tbl[i].is_correct})
    IN  [total_answers |-> total_answers,
         correct_answers |-> correct_answers,
         accuracy |-> IF total_answers # 0 THEN py_div(correct_answers, total_answers) ELSE Zero,
         by_week |-> get_stats_by_week(tbl)]

GetStatsOverview ==
    /\ last = Idle
    /\ last' = [op |-> "get_stats_overview", stats |-> get_stats_overview(answers)]
    /\ UNCHANGED <<notes, questions, answers, seq, now, req>>

\* SpecStats: answers over time, note deletions and the statistics.
NextStats ==
    \/ Respond
    \/ Tick
    \/ \E b \in TwoDrafts : InsertQuestionBatch(1, b)
    \/ \E q \in 1..2, c \in BOOLEAN : InsertAnswer(q, c)
    \/ DeleteNote(1)
    \/ GetStatsOverview

SpecStats == Init /\ [][NextStats]_vars

RECURSIVE SumOf(_, _)
SumOf(s, field) == IF s = <<>> THEN 0 ELSE s[1][field] + SumOf(Tail(s), field)

\* C11: after any sequence of answer insertions and note deletions,
\* get_stats_overview reports total_answers = the number of stored answers,
\* correct_answers = the number of them that are correct, accuracy =
\* correct_answers / total_answers when total_answers > 0 and 0 otherwise
\* (2/3 for 3 answers with 2 correct); by_week is in ascending week order,
\* every bucket has correct <= total, and the buckets' totals and corrects
\* sum to total_answers and correct_answers.
C11_StatsOverview ==
    /\ get_stats_overview(<<>>).accuracy = Zero
    /\ last.op = "get_stats_overview" =>
          LET st == last.stats
              stored == Len(answers)
              right == Cardinality({i \in 1..Len(answers) : answers[i].is_correct})
          IN  /\ st.total_answers = stored
              /\ st.correct_answers = right
              /\ IF stored > 0
                 THEN /\ st.accuracy.d > 0
                      /\ st.accuracy.n * stored = right * st.accuracy.d
                      /\ (stored = 3 /\ right = 2) => st.accuracy.n * 3 = 2 * st.accuracy.d
                 ELSE st.accuracy.n = 0
              /\ \A i, j \in 1..Len(st.by_week) :
                    i < j => st.by_week[i].week < st.by_week[j].week
              /\ \A i \in 1..Len(st.by_week) :
                    /\ st.by_week[i].correct <= st.by_week[i].total
                    /\ st.by_week[i].total > 0
                    /\ st.by_week[i].accuracy.n * st.by_week[i].total
                          = st.by_week[i].correct * st.by_week[i].accuracy.d
              /\ SumOf(st.by_week, "total") = st.total_answers
              /\ SumOf(st.by_week, "correct") = st.correct_answers

\* Statistics over two weeks, asked after a note deletion removed an answer.
C11_Witness ==
    /\ last.op = "get_stats_overview"
    /\ last.stats.total_answers = 2
    /\ last.stats.correct_answers = 1
    /\ Len(last.stats.by_week) = 2
    /\ seq.user_answers = 3

(***************************************************************************)
(* SpecSubmit: answer submissions of every kind, one after the other.      *)
(***************************************************************************)
ScoredReply(x) ==
    Response(200, JDict(<<KV("output", JDict(<<KV("text",
        JStr(JsonText("none", JDict(<<KV("score", JNum(x))>>))))>>))>>))

\* Outcomes of the scoring call: no credential, a transport error, a 500
\* response, and the scores 0.5, 0.59999, 0.6, 1.0, 60 and 85.
SubmitScorings ==
    {NoScoring, [api_key |-> TRUE, http |-> HttpError],
     [api_key |-> TRUE, http |-> Response(500, NotJson)]}
    \cup {[api_key |-> TRUE, http |-> ScoredReply(Fin(v))] :
            v \in {50000, 59999, 60000, ONE, 60 * ONE, 85 * ONE}}

SubmitRequests ==
    {[fn |-> "api_submit_answer", question_id |-> q, user_answer |-> ua, scoring |-> sc] :
        q \in {NoId} \cup {Some(i) : i \in 1..3},
        ua \in {<<>>, Str_C, Str_C_Option_text, <<65>>},
        sc \in SubmitScorings}

\* One note with a single_choice question (answer "C") and a short_answer one.
InitSubmit ==
    /\ notes = insert_note(<<>>, 1, 0)
    /\ questions = <<[id |-> 1, note_id |-> 1, knowledge_tag |-> "t1",
                      q_type |-> "single_choice", content |-> "a", answer |-> Str_C],
                     [id |-> 2, note_id |-> 1, knowledge_tag |-> "t2",
                      q_type |-> "short_answer", content |-> "b", answer |-> <<65>>]>>
    /\ answers = <<>>
    /\ seq = [notes |-> 1, questions |-> 2, user_answers |-> 0]
    /\ now = 0
    /\ req = NoCall
    /\ last = Idle

NextSubmit ==
    \/ Respond
    \/ Tick
    \/ \E r \in SubmitRequests : SubmitAnswer(r)

SpecSubmit == InitSubmit /\ [][NextSubmit]_vars

\* C12: a submission for an existing question appends exactly one answer
\* record and leaves the earlier ones as they were; its is_correct is the
\* grading outcome (for short_answer: true exactly when the scoring client's
\* score is >= 0.6, so a soft-failed scoring call is stored as incorrect);
\* a submission without question_id is answered 400 and one with an unknown
\* question id 404, and both leave the store unchanged.
C12_SubmitAppendsOne ==
    last.op = "api_submit_answer" =>
        LET r == last.request
            exists == r.question_id # NoId /\
                      \E i \in 1..Len(last.before.questions) :
                          last.before.questions[i].id = TheId(r.question_id)
        IN  /\ notes = last.before.notes
            /\ questions = last.before.questions
            /\ last.status = (IF r.question_id = NoId THEN 400
                              ELSE IF ~exists THEN 404 ELSE 200)
            /\ last.status # 200 => answers = last.before.answers
            /\ last.status = 200 =>
                  LET new == answers[Len(answers)]
                      out == score_answer(r.scoring.api_key, r.scoring.http)
                  IN  /\ Len(answers) = Len(last.before.answers) + 1
                      /\ SubSeq(answers, 1, Len(answers) - 1) = last.before.answers
                      /\ new.question_id = TheId(r.question_id)
                      /\ \A i \in 1..(Len(answers) - 1) : answers[i].id # new.id
                      /\ new.is_correct = last.is_correct
                      /\ last.q_type = "short_answer" =>
                            /\ new.is_correct = (out.score * 10 >= 6 * ONE)
                            /\ out.comment \in {"no_api_key", "failed", "no_content"}
                                  => ~new.is_correct
                      /\ last.q_type # "short_answer" =>
                            new.is_correct = (normalize_choice(r.user_answer)
                                                = normalize_choice(last.answer))

\* A short_answer submission whose scoring call failed is stored, incorrect,
\* after an earlier correct answer.
C12_Witness ==
    /\ last.op = "api_submit_answer"
    /\ last.status = 200
    /\ last.q_type = "short_answer"
    /\ last.request.scoring.http = HttpError
    /\ last.request.scoring.api_key
    /\ Len(answers) = 2
    /\ answers[1].is_correct
    /\ ~answers[2].is_correct

(***************************************************************************)
(* SpecPayload: generate_questions_from_note over the shapes of a decoded  *)
(* 200 response: where the text payload sits and what precedes it.         *)
(***************************************************************************)
\* The text of a JSON array holding one question whose content is c.
ArrayText(c) == JStr(JsonText("none", JList(<<JDict(<<KV("content", JStr(Plain(c)))>>)>>)))

Optional(item) == {<<>>, <<item>>}

ChoicesValues ==
    {JList(<<>>), JList(<<JDict(<<>>)>>), JList(<<JStr(Plain("stop"))>>)}
    \cup {JList(<<JDict(pre \o <<KV("text", t)>>)>>) :
            pre \in Optional(KV("finish_reason", JStr(Plain("stop")))),
            t \in {JStr(Empty), ArrayText("a")}}

OutputValues ==
    LET cs == {<<KV("choices", c)>> : c \in ChoicesValues}
        ts == {<<KV("text", t)>> : t \in {JStr(Empty), ArrayText("b")}}
    IN  {JDict(items) : items \in {<<>>} \cup cs \cup ts
                                   \cup {c \o t : c \in cs, t \in ts}
                                   \cup {t \o c : c \in cs, t \in ts}}

PayloadBodies ==
    {JDict(r \o o \o x) :
        r \in Optional(KV("request_id", JStr(Plain("req-1")))),
        o \in {<<>>} \cup {<<KV("output", v)>> : v \in OutputValues},
        x \in Optional(KV("result", JList(<<ArrayText("c")>>)))}
    \cup {JList(<<ArrayText("c")>>)}

InitPayload ==
    /\ init_db
    /\ req \in {[fn |-> "generate_questions_from_note", api_key |-> TRUE,
                 http |-> Response(200, b)] : b \in PayloadBodies}
    /\ last = Idle

NextPayload ==
    \/ Respond
    \/ GenerateQuestions

SpecPayload == InitPayload /\ [][NextPayload]_vars

\* The payload by the stated precedence: output.choices[0].text when present
\* and non-empty, else output.text when present and non-empty, else the
\* first non-empty string of a depth-first scan of the whole response.
NonEmptyStr(v) == v.t = "str" /\ v.s.kind # "empty"

PrecedenceText(data) ==
    LET output == IF data.t = "dict" THEN Get(data, "output", JNull) ELSE JNull
        choices == IF output.t = "dict" THEN Get(output, "choices", JNull) ELSE JNull
        first == IF choices.t = "list" /\ choices.items # <<>> /\ choices.items[1].t = "dict"
                 THEN Get(choices.items[1], "text", JNull) ELSE JNull
        text == IF output.t = "dict" THEN Get(output, "text", JNull) ELSE JNull
    IN  IF NonEmptyStr(first) THEN first
        ELSE IF NonEmptyStr(text) THEN text
        ELSE extract_first_str(data)

\* The drafts read from a payload.
DraftsOf(text) ==
    IF ~Truthy(text) THEN <<>>
    ELSE LET raw == load_output_text(text)
         IN  IF raw.kind = "raise" \/ raw.v.t # "list" THEN <<>>
             ELSE parse_questions(raw.v.items, <<>>)

\* C13: the text payload of a response is output.choices[0].text when
\* present and non-empty, else output.text when present and non-empty, else
\* the first non-empty string of a depth-first scan of the whole decoded
\* response; a response with no known envelope field but one nested string
\* holding a JSON array still yields the question list.
C13_PayloadPrecedence ==
    /\ generate_questions_from_note(TRUE,
          Response(200, JDict(<<KV("result", JList(<<ArrayText("c")>>))>>))).v
          = DraftsOf(ArrayText("c"))
    /\ last.op = "generate_questions_from_note" =>
          last.out.v = DraftsOf(PrecedenceText(req.http.body))

(***************************************************************************)
(* SpecCall: one invocation of a client method, statement by statement.    *)
(* req is the frame of the call: where it stands (pc) and how many         *)
(* outbound HTTP requests it has issued (sent).                            *)
(***************************************************************************)
MaxSends == 2      \* requests one invocation may issue in the model

Frame(c) == [fn |-> c.fn, api_key |-> c.api_key, http |-> c.http, pc |-> "call", sent |-> 0]

\* Mutant: an exception of the try body leads back to requests.post.
on_exception_retry == "post"

\* except Exception: the handler, which returns the default.
on_exception == "except"

try_body(frame) ==
    IF frame.fn = "score_answer" THEN score_answer_try(frame.http) ELSE generate_try(frame.http)

soft_default(frame) ==
    IF frame.fn = "score_answer"
    THEN Scored(0, IF frame.api_key THEN "failed" ELSE "no_api_key")
    ELSE Returned(<<>>)

\* if not self.api_key: return the default
CallStart ==
    /\ last = Idle
    /\ req # NoCall
    /\ req.pc = "call"
    /\ IF ~req.api_key
       THEN /\ req' = [req EXCEPT !.pc = "returned"]
            /\ last' = [op |-> req.fn, out |-> soft_default(req)]
       ELSE /\ req' = [req EXCEPT !.pc = "post"]
            /\ last' = last
    /\ UNCHANGED <<notes, questions, answers, seq, now>>

\* requests.post(..., timeout=120); raise_for_status(); resp.json()
CallPost ==
    /\ req # NoCall
    /\ req.pc = "post"
    /\ req.sent < MaxSends
    /\ req' = [req EXCEPT !.sent = @ + 1,
                          !.pc = IF fetch(req.http).kind = "raise" THEN on_exception ELSE "parse"]
    /\ UNCHANGED <<notes, questions, answers, seq, now, last>>

\* The rest of the try body: it returns or raises.
CallParse ==
    /\ req # NoCall
    /\ req.pc = "parse"
    /\ LET r == try_body(req)
       IN  IF r.kind = "raise"
           THEN /\ req' = [req EXCEPT !.pc = on_exception]
                /\ last' = last
           ELSE /\ req' = [req EXCEPT !.pc = "returned"]
                /\ last' = [op |-> req.fn, out |-> r]
    /\ UNCHANGED <<notes, questions, answers, seq, now>>

CallExcept ==
    /\ req # NoCall
    /\ req.pc = "except"
    /\ req' = [req EXCEPT !.pc = "returned"]
    /\ last' = [op |-> req.fn, out |-> soft_default(req)]
    /\ UNCHANGED <<notes, questions, answers, seq, now>>

\* What the service may answer to the call: a good payload, text that is
\* no JSON, and no text.
CallScoreTexts ==
    {JStr(JsonText("none", JDict(<<KV("score", JNum(Fin(85 * ONE)))>>))),
     JStr(Plain("sorry")), JNull}
CallGenTexts == {ArrayText("a"), JStr(Plain("sorry")), JNull}

\* A caller invokes the method.
CallEnter ==
    /\ req = NoCall
    /\ last = Idle
    /\ req' \in {Frame(c) : c \in Calls("score_answer", CallScoreTexts)
                                \cup Calls("generate_questions_from_note", CallGenTexts)}
    /\ UNCHANGED <<notes, questions, answers, seq, now, last>>

NextCall ==
    \/ CallEnter
    \/ CallStart
    \/ CallPost
    \/ CallParse
    \/ CallExcept
    \/ Respond

\* A statement of the method that can run does run: none of them waits for
\* anything but the HTTP call, which ends within its timeout.
CallStep == CallStart \/ CallPost \/ CallParse \/ CallExcept

SpecCall == Init /\ [][NextCall]_vars /\ WF_vars(CallStep)

\* C14: an invocation of generate_questions_from_note or score_answer issues
\* at most one outbound HTTP request (no retry after an error or timeout),
\* none without a credential, and always ends by returning a parsed result
\* or the soft-failure default.
C14_OneRequestThenReturn ==
    /\ [](req # NoCall =>
          /\ req.sent <= 1
          /\ ~req.api_key => req.sent = 0
          /\ last # Idle =>
                /\ req.pc = "returned"
                /\ last.out = (IF req.fn = "score_answer"
                               THEN score_answer(req.api_key, req.http)
                               ELSE generate_questions_from_note(req.api_key, req.http))
                /\ last.out.kind = "return")
    /\ (req # NoCall) ~> (req # NoCall /\ req.pc = "returned")

\* A call whose single request failed has returned the default.
C14_Witness ==
    /\ req # NoCall
    /\ req.pc = "returned"
    /\ req.sent = 1
    /\ req.http = HttpError
    /\ last # Idle
    /\ last.out = soft_default(req)

(***************************************************************************)
(* SpecDelete: delete_note statement by statement, on its own connection,  *)
(* beside requests that write through other connections.                   *)
(*                                                                         *)
(* notes, questions and answers are the committed tables, which is what    *)
(* every other connection reads. req is the frame of the delete_note call: *)
(* pc, the q_ids it has read, and tx, the tables as its open transaction   *)
(* sees them (NoId while it has none). The sqlite3 module opens the        *)
(* transaction before the first DELETE it runs, not before the SELECT, and *)
(* from then to the commit no other connection can write.                  *)
(***************************************************************************)
select_q_ids(db, note_id) ==
    {db.questions[i].id : i \in {j \in 1..Len(db.questions) : db.questions[j].note_id = note_id}}

delete_answers_of(db, q_ids) ==
    [db EXCEPT !.answers = SelectSeq(@, LAMBDA a : a.question_id \notin q_ids)]

delete_questions_of(db, note_id) ==
    [db EXCEPT !.questions = SelectSeq(@, LAMBDA q : q.note_id # note_id)]

delete_note_row(db, note_id) ==
    [db EXCEPT !.notes = SelectSeq(@, LAMBDA n : n.id # note_id)]

DeleteFrame(note_id) ==
    [fn |-> "delete_note", note_id |-> note_id, pc |-> "select", q_ids |-> {}, tx |-> NoId]

Deleting == req # NoCall /\ req.fn = "delete_note"
WriteLocked == Deleting /\ req.tx # NoId

\* The tables as the delete's connection sees them; its first DELETE begins
\* the transaction on the committed tables.
TxView == IF req.tx = NoId THEN Db ELSE TheId(req.tx)

DelEnter(note_id) ==
    /\ req = NoCall
    /\ req' = DeleteFrame(note_id)
    /\ UNCHANGED <<notes, questions, answers, seq, now, last>>

\* SELECT id FROM questions WHERE note_id = ?
DelSelect ==
    /\ Deleting /\ req.pc = "select"
    /\ req' = [req EXCEPT !.pc = "answers", !.q_ids = select_q_ids(Db, req.note_id)]
    /\ UNCHANGED <<notes, questions, answers, seq, now, last>>

\* if q_ids: DELETE FROM user_answers WHERE question_id IN (...)
DelAnswers ==
    /\ Deleting /\ req.pc = "answers"
    /\ req' = IF req.q_ids # {}
              THEN [req EXCEPT !.pc = "questions",
                               !.tx = Some(delete_answers_of(TxView, req.q_ids))]
              ELSE [req EXCEPT !.pc = "questions"]
    /\ UNCHANGED <<notes, questions, answers, seq, now, last>>

\* DELETE FROM questions WHERE note_id = ?
DelQuestions ==
    /\ Deleting /\ req.pc = "questions"
    /\ req' = [req EXCEPT !.pc = "notes",
                          !.tx = Some(delete_questions_of(TxView, req.note_id))]
    /\ UNCHANGED <<notes, questions, answers, seq, now, last>>

\* DELETE FROM notes WHERE id = ?
DelNote ==
    /\ Deleting /\ req.pc = "notes"
    /\ req' = [req EXCEPT !.pc = "commit",
                          !.tx = Some(delete_note_row(TxView, req.note_id))]
    /\ UNCHANGED <<notes, questions, answers, seq, now, last>>

\* db.commit()
DelCommit ==
    /\ Deleting /\ req.pc = "commit"
    /\ notes' = TxView.notes
    /\ questions' = TxView.questions
    /\ answers' = TxView.answers
    /\ req' = NoCall
    /\ UNCHANGED <<seq, now, last>>

\* One stored note.
InitDelete ==
    /\ notes = insert_note(<<>>, 1, 0)
    /\ questions = <<>>
    /\ answers = <<>>
    /\ seq = [notes |-> 1, questions |-> 0, user_answers |-> 0]
    /\ now = 0
    /\ req = NoCall
    /\ last = Idle

\* The other requests: an upload's batch for the note while the note is
\* stored, and a submission for a stored question, each taken whole.
NextDelete ==
    \/ Respond
    \/ DelEnter(1)
    \/ DelSelect
    \/ DelAnswers
    \/ DelQuestions
    \/ DelNote
    \/ DelCommit
    \/ /\ ~WriteLocked
       /\ notes # <<>>
       /\ \E b \in TwoDrafts : InsertQuestionBatch(1, b)
    \/ /\ ~WriteLocked
       /\ \E q \in select_q_ids(Db, 1) : InsertAnswer(q, FALSE)

SpecDelete == InitDelete /\ [][NextDelete]_vars

\* C15: delete_note deletes the answers of the note's questions first, then
\* the questions, then the note, and one commit makes the three deletions
\* visible: no other request observes the note's questions gone while an
\* answer referencing one of them, or the note row, is still stored.
C15_DeleteIsOneUnit ==
    /\ WriteLocked =>
          LET tx == TheId(req.tx)
          IN  /\ select_q_ids(tx, req.note_id) = {} =>
                    \A i \in 1..Len(tx.answers) : tx.answers[i].question_id \notin req.q_ids
              /\ tx.notes = <<>> => select_q_ids(tx, req.note_id) = {}
    /\ (seq.questions > 0 /\ select_q_ids(Db, 1) = {}) =>
          /\ notes = <<>>
          /\ \A i \in 1..Len(answers) : answers[i].question_id \notin 1..seq.questions

(***************************************************************************)
(* SpecBatch: two uploads run insert_question_batch at the same time, each *)
(* on its own connection. req.p[i] is the frame of upload i: pc, the       *)
(* drafts still to handle, its existing_contents and the rows it has       *)
(* inserted and not yet committed. The first INSERT of a connection opens  *)
(* its transaction, and no other connection can write until the commit;    *)
(* the questions table has no UNIQUE constraint on content.                *)
(***************************************************************************)
BatchDrafts == {d \in Drafts : d.knowledge_tag = "t1"}
ConcurrentBatches == UNION {[1..k -> BatchDrafts] : k \in 1..MaxBatch}

BatchFrame(note_id, drafts) ==
    [note_id |-> note_id, pc |-> "snapshot", drafts |-> drafts, existing |-> {}, rows |-> <<>>]

Uploading == req # NoCall /\ req.fn = "insert_question_batch"
InTransaction(f) == f.pc = "insert" /\ f.rows # <<>>

\* SELECT content FROM questions, kept as a set of the non-empty contents.
BatchSnapshot(i) ==
    /\ Uploading /\ req.p[i].pc = "snapshot"
    /\ req' = [req EXCEPT !.p[i].pc = "insert",
                          !.p[i].existing = {questions[k].content : k \in 1..Len(questions)} \ {""}]
    /\ UNCHANGED <<notes, questions, answers, seq, now, last>>

\* One pass of the loop body: skip the draft, or INSERT its row.
BatchInsert(i) ==
    /\ Uploading /\ req.p[i].pc = "insert" /\ req.p[i].drafts # <<>>
    /\ LET f == req.p[i]
           q == Head(f.drafts)
           content == q.content
       IN  IF content = "" \/ content \in f.existing
           THEN req' = [req EXCEPT !.p[i].drafts = Tail(@)]
           ELSE /\ \A j \in DOMAIN req.p : j # i => ~InTransaction(req.p[j])
                /\ req' = [req EXCEPT
                      !.p[i].drafts = Tail(@),
                      !.p[i].existing = @ \cup {content},
                      !.p[i].rows = Append(@, [note_id |-> f.note_id,
                                               knowledge_tag |-> q.knowledge_tag,
                                               q_type |-> q.q_type, content |-> content,
                                               answer |-> q.answer])]
    /\ UNCHANGED <<notes, questions, answers, seq, now, last>>

\* db.commit(): the rows get the next ids and become visible.
BatchCommit(i) ==
    /\ Uploading /\ req.p[i].pc = "insert" /\ req.p[i].drafts = <<>>
    /\ LET rows == req.p[i].rows
       IN  /\ questions' = questions \o
                 [k \in 1..Len(rows) |->
                    [id |-> seq.questions + k, note_id |-> rows[k].note_id,
                     knowledge_tag |-> rows[k].knowledge_tag, q_type |-> rows[k].q_type,
                     content |-> rows[k].content, answer |-> rows[k].answer]]
           /\ seq' = [seq EXCEPT !.questions = @ + Len(rows)]
    /\ req' = [req EXCEPT !.p[i].pc = "done", !.p[i].rows = <<>>]
    /\ UNCHANGED <<notes, answers, now, last>>

\* Two notes stored by two uploads, each about to insert its batch.
InitBatch ==
    /\ notes = insert_note(insert_note(<<>>, 1, 0), 2, 0)
    /\ questions = <<>>
    /\ answers = <<>>
    /\ seq = [notes |-> 2, questions |-> 0, user_answers |-> 0]
    /\ now = 0
    /\ req \in {[fn |-> "insert_question_batch",
                 p |-> <<BatchFrame(1, b1), BatchFrame(2, b2)>>] :
                  b1 \in ConcurrentBatches, b2 \in ConcurrentBatches}
    /\ last = Idle

NextBatch ==
    \/ \E i \in 1..2 : BatchSnapshot(i)
    \/ \E i \in 1..2 : BatchInsert(i)
    \/ \E i \in 1..2 : BatchCommit(i)

SpecBatch == InitBatch /\ [][NextBatch]_vars

\* C16: when two uploads run insert_question_batch concurrently on separate
\* connections, their snapshot reads, row inserts and commits interleaved,
\* the store still never holds two questions with the same non-empty content.
C16_ConcurrentDedup ==
    \A c \in {questions[i].content : i \in 1..Len(questions)} \ {""} :
        Cardinality({i \in 1..Len(questions) : questions[i].content = c}) = 1

(***************************************************************************)
(* SpecRoutes: the routes upload_note, api_submit_answer and               *)
(* api_delete_note served at the same time. req holds the frame of the     *)
(* upload and of the submission under way (NoId when there is none); each  *)
(* call of models.py commits before it returns, and the schema declares no *)
(* foreign key.                                                            *)
(***************************************************************************)
NoRequests == [fn |-> "routes", upload |-> NoId, submit |-> NoId]
Routing == req # NoCall /\ req.fn = "routes"

\* upload_note: insert_note, committed; the generation call follows.
UploadInsertNote ==
    /\ Routing /\ req.upload = NoId
    /\ seq.notes < MaxNotes
    /\ notes' = insert_note(notes, seq.notes + 1, now)
    /\ seq' = [seq EXCEPT !.notes = @ + 1]
    /\ req' = [req EXCEPT !.upload = Some(seq.notes + 1)]
    /\ UNCHANGED <<questions, answers, now, last>>

\* upload_note: the generation call has returned `drafts';
\* insert_question_batch(db, note_id, questions) and the response.
UploadInsertBatch(drafts) ==
    /\ Routing /\ req.upload # NoId
    /\ questions' = insert_question_batch(questions, TheId(req.upload), drafts, seq.questions)
    /\ seq' = [seq EXCEPT !.questions = @ + (Len(questions') - Len(questions))]
    /\ seq'.questions <= MaxQid
    /\ req' = [req EXCEPT !.upload = NoId]
    /\ UNCHANGED <<notes, answers, now, last>>

\* api_submit_answer: get_question_by_id; 404 ends the request.
SubmitGetQuestion(question_id) ==
    /\ Routing /\ req.submit = NoId
    /\ req' = IF get_question_by_id(questions, question_id) = {} THEN req
              ELSE [req EXCEPT !.submit = Some(question_id)]
    /\ UNCHANGED <<notes, questions, answers, seq, now, last>>

\* api_submit_answer: the grading is done; insert_answer and the response.
SubmitInsertAnswer(is_correct) ==
    /\ Routing /\ req.submit # NoId
    /\ seq.user_answers < MaxAnswers
    /\ answers' = insert_answer(answers, seq.user_answers + 1, TheId(req.submit), is_correct, now)
    /\ seq' = [seq EXCEPT !.user_answers = @ + 1]
    /\ req' = [req EXCEPT !.submit = NoId]
    /\ UNCHANGED <<notes, questions, now, last>>

\* api_delete_note: delete_note, taken whole.
RouteDeleteNote(note_id) ==
    LET db == delete_note(Db, note_id)
    IN  /\ Routing
        /\ notes' = db.notes
        /\ questions' = db.questions
        /\ answers' = db.answers
        /\ UNCHANGED <<seq, now, req, last>>

InitRoutes ==
    /\ init_db
    /\ req = NoRequests
    /\ last = Idle

NextRoutes ==
    \/ UploadInsertNote
    \/ \E b \in TwoDrafts \cup {<<>>} : UploadInsertBatch(b)
    \/ \E q \in QuestionIds : SubmitGetQuestion(q)
    \/ \E c \in BOOLEAN : SubmitInsertAnswer(c)
    \/ \E n \in NoteIds : RouteDeleteNote(n)

SpecRoutes == InitRoutes /\ [][NextRoutes]_vars

\* C17: in every state of the store reached through the routes upload note,
\* submit answer and delete note, interleaved or not, every answer
\* references a stored question and every question references a stored note.
C17_ReferencesResolve ==
    /\ \A i \in 1..Len(answers) :
          \E k \in 1..Len(questions) : questions[k].id = answers[i].question_id
    /\ \A k \in 1..Len(questions) :
          \E n \in 1..Len(notes) : notes[n].id = questions[k].note_id

====
